---- MODULE Spec2Model ----
(***************************************************************************)
(* Inventory reservation engine of Final2025Python: the order-detail       *)
(* service (OrderDetailService.save / update / delete) working on the      *)
(* products and order_details tables through per-request SQLAlchemy        *)
(* sessions, and ProductService.update writing the same products table.    *)
(*                                                                         *)
(* Every request runs on its own worker with its own session               *)
(* (config/database.py get_db).  A request is modelled by the steps at     *)
(* which it touches the database: the unlocked reads at its start, the     *)
(* SELECT ... FOR UPDATE with the checks made on its result, the commit,   *)
(* and the session close that ends a request that raised.                  *)
(*                                                                         *)
(* Money is counted in hundredths, so 0.01 is 1.                           *)
(***************************************************************************)
EXTENDS Integers, FiniteSets, Sequences, TLC

\* ---- bounds of the model ------------------------------------------------
MaxStock == 2
MaxQuantity == 2

\* The largest number of calls a rate limiter is configured with.
MaxCalls == 2

\* ---- the world ----------------------------------------------------------

\* The workers; each serves one request, on a session of its own.
Workers == {1, 2}

\* Python's None for an optional integer field; ids, prices and quantities
\* are all positive.
None == 0

Products == {1, 2}
ProductIds == Products \cup {3}
Orders == {1}
OrderIds == Orders \cup {2}
LineIds == {1, 2}

\* The rows of the categories table, and the ids a request may name.
Categories == {1}
CategoryIds == Categories \cup {2}

\* categories.name when the workers start, and the name an update sets.
CategoryName == "books"
CategoryNames == {CategoryName, "music"}

\* ProductModel.price of the products, in hundredths.
ProductPrice(p) == 10 * p

\* ValidationConfig.PRICE_EPSILON, the literal 0.01 of the price guard.
PRICE_EPSILON == 1

Abs(x) == IF x < 0 THEN -x ELSE x

NoLine == [quantity |-> None, price |-> None, order_id |-> None, product_id |-> None]

\* A request: the operation and its schema.
Schema(op, id, q, pr, o, p) ==
    [quantity |-> q, price |-> pr, order_id |-> o, product_id |-> p, op |-> op, id_key |-> id]

NoReq == Schema("none", None, None, None, None, None)

VARIABLES
    stock,      \* products.stock, committed
    lines,      \* order_details rows, committed (NoLine: no row with that id)
    nextId,     \* next value of the order_details id sequence
    locks,      \* the row locks held: <<worker, product>>
    pc,         \* where each worker's request stands
    req,        \* the request the worker is serving
    existing,   \* the OrderDetailSchema read by find() at the start of update/delete
    loaded,     \* the session's copy of the line's product stock, read by find()
    pending,    \* product_model.stock as set in the session, not yet committed
    result,     \* the outcome of the worker's request, once it has one
    stock0,     \* the stock each product would have with nothing reserved
    live,       \* the ids of the products rows, committed
    categories, \* categories.name, committed
    redisClient, \* CacheService.redis_client is not None
    cache,      \* the data entries of the key-value store, by key
    lockKey,    \* the lock:<key> entries of the store: the worker that set it
    limiter,    \* the rate limiter: its configured calls and its counters in the store
    frame       \* the locals of the worker's cache or rate-limited call

\* The variables of the key-value store and of the calls that use it.
cacheVars == <<redisClient, cache, lockKey, limiter, frame>>

\* The variables of the database and of the sessions on it.
dbVars == <<stock, lines, nextId, locks, req, existing, loaded, pending, stock0, live,
           categories>>

vars == <<stock, lines, nextId, locks, pc, req, existing, loaded, pending,
          result, stock0, live, categories, redisClient, cache, lockKey, limiter, frame>>

\* ---- the service's checks and arithmetic --------------------------------

\* order_detail_service.py:72  product_model.stock < schema.quantity
InsufficientStockMut(available, requested) == FALSE
InsufficientStock(available, requested) == available < requested

\* order_detail_service.py:83-84  the price defaults to the product's price
EffectivePrice(schemaPrice, productPrice) ==
    IF schemaPrice = None THEN productPrice ELSE schemaPrice

\* order_detail_service.py:88  abs(schema.price - product_model.price) > 0.01
PriceMismatchMut(schemaPrice, productPrice) == schemaPrice - productPrice > PRICE_EPSILON
PriceMismatch(schemaPrice, productPrice) ==
    Abs(schemaPrice - productPrice) > PRICE_EPSILON

\* order_detail_service.py:98  product_model.stock -= schema.quantity
StockAfterReserve(s, q) == s - q

\* order_detail_service.py:173  quantity_diff
QuantityDiff(newQ, oldQ) == newQ - oldQ

\* order_detail_service.py:176  quantity_diff > 0 and stock < quantity_diff
InsufficientForIncrease(available, diff) == diff > 0 /\ available < diff

\* order_detail_service.py:237  product_model.stock += order_detail.quantity
StockAfterReleaseMut(s, q) == s + 1
StockAfterRelease(s, q) == s + q

\* order_detail_service.py:157  the product whose row update() locks
EffectiveProductMut(schemaProduct, existingProduct) == existingProduct
EffectiveProduct(schemaProduct, existingProduct) ==
    IF schemaProduct # None THEN schemaProduct ELSE existingProduct

\* models/product.py:30  CheckConstraint('stock >= 0')
CheckConstraint(s) == s >= 0

\* base_repository_impl.py:185-224  a None value is skipped; setting a column to
\* the value the session already holds for it leaves the row's column alone.
SetAttr(current, held, new) ==
    IF new = None \/ new = held THEN current ELSE new

\* ---- the session and the row locks ---------------------------------------

\* The values a set of <<product, stock>> pairs holds for product p.
Held(pairs, p) == {pr[2] : pr \in {x \in pairs : x[1] = p}}

\* What product_model.stock reads after the SELECT ... FOR UPDATE of worker w
\* on product p.  find() validated the line into an OrderDetailSchema, whose
\* `product` field made the session load the line's product; the locked
\* select is issued without populate_existing, so a product the session
\* already holds keeps the attributes it was loaded with.
LockedStock(w, p) ==
    IF Held(loaded[w], p) # {} THEN CHOOSE s \in Held(loaded[w], p) : TRUE ELSE stock[p]

\* The products table as the commit of worker w leaves it.
Flushed(w) ==
    [p \in Products |->
        IF Held(pending[w], p) # {} THEN CHOOSE s \in Held(pending[w], p) : TRUE
        ELSE stock[p]]

\* The products table as the rollback of worker w leaves it.
RollbackMut(w) == Flushed(w)
Rollback(w) == stock

\* The commit flushes the session's stock; the CHECK constraint of the
\* products table rejects a negative one.
ConstraintHolds(w) == \A pr \in pending[w] : CheckConstraint(pr[2])

\* SELECT ... FOR UPDATE waits while another transaction holds the row's lock.
LockFreeMut(p) == TRUE
LockFree(p) == \A l \in locks : l[2] # p

\* The row locks once worker w has the lock of product p.
AcquireMut(w, p) == locks
Acquire(w, p) == locks \cup {<<w, p>>}

\* The row locks once the transaction of worker w has ended.
UnlockedMut(w) == locks
Unlocked(w) == {l \in locks : l[1] # w}

\* The OrderDetailModel that BaseServiceImpl.save builds from the schema.
ToModel(schema) ==
    [quantity |-> schema.quantity, price |-> schema.price,
     order_id |-> schema.order_id, product_id |-> schema.product_id]

\* The changes BaseServiceImpl.update hands to the repository: the schema's
\* columns.
Changes(schema) ==
    [quantity |-> schema.quantity, price |-> schema.price,
     order_id |-> schema.order_id, product_id |-> schema.product_id]

\* base_repository_impl.py:185-226  the row after the setattr loop
Updated(row, held, changes) ==
    [quantity   |-> SetAttr(row.quantity, held.quantity, changes.quantity),
     price      |-> SetAttr(row.price, held.price, changes.price),
     order_id   |-> SetAttr(row.order_id, held.order_id, changes.order_id),
     product_id |-> SetAttr(row.product_id, held.product_id, changes.product_id)]

\* ---- the key-value store and CacheService's conversions --------------------

\* cache_service.py:34  REDIS_CACHE_TTL, seconds
default_ttl == 300

\* cache_service.py:168  get_or_set(..., max_retries=3, ...)
max_retries == 3

\* A Python value is <<type, text>>: the text is the value's JSON text, and
\* the string itself for a str.
Str(text) == <<"str", text>>
PyNone == <<"none", "null">>
PyTrue == <<"bool", "true">>
PyFalse == <<"bool", "false">>

\* product_service.py:79  product.model_dump(), as far as the stock goes
ProductDump(s) == <<"dict", "{\"stock\": " \o ToString(s) \o "}">>

\* The stock a product may be read with.
StockRange == 0..(MaxStock + 2 * MaxQuantity)

\* product_service.py:56  [p.model_dump() for p in products]
ProductListDump(st) ==
    <<"list", "[" \o ProductDump(st[1])[2] \o ", " \o ProductDump(st[2])[2] \o "]">>

\* category_service.py:76  category.model_dump(), as far as the name goes
CategoryDump(name) == <<"dict", "{\"name\": \"" \o name \o "\"}">>

\* category_service.py:55  [c.model_dump() for c in categories]
CategoryListDump(names) == <<"list", "[" \o CategoryDump(names[1])[2] \o "]">>

\* category_service.py:29  self.cache_ttl, seconds
cache_ttl == 3600

\* What the callers of the cache hand to it.
Values ==
    {<<"dict", "{\"data\": 1}">>, <<"dict", "{\"data\": 2}">>, <<"int", "7">>,
     <<"list", "[1]">>, <<"tuple", "[1]">>, <<"set", "{1}">>,
     Str("abc"), Str("7"), PyNone}

\* The values json.loads can produce.
Decodable ==
    {v \in Values : v[1] \in {"dict", "int", "list", "none"}}
    \cup {ProductDump(s) : s \in StockRange}
    \cup {ProductListDump(st) : st \in [Products -> StockRange]}
    \cup {CategoryDump(n) : n \in CategoryNames}
    \cup {CategoryListDump(ns) : ns \in [Categories -> CategoryNames]}

\* json.dumps raises TypeError for a value that has no JSON text.
Serializable(v) == v[1] # "set"

\* json.dumps(value)
Dumps(v) == v[2]

\* cache_service.py:86-88  a str is stored as it is, anything else as its JSON
\* text.
Serialize(v) == IF v[1] = "str" THEN v[2] ELSE Dumps(v)

\* cache_service.py:57-62  json.loads(value), and the raw string when the text
\* is not JSON.
Deserialize(text) ==
    IF \E v \in Decodable : Dumps(v) = text
    THEN CHOOSE v \in Decodable : Dumps(v) = text
    ELSE Str(text)

\* product_service.py:68  build_key("products", "id", id=id_key): the prefix, the
\* positional parts, then each keyword and its value, joined by ":"
\* (cache_service.py:366-374).
ProductKey(p) == "products:id:id:" \o ToString(p)

\* product_service.py:38-43  build_key("products", "list", skip=0, limit=100)
ProductListKey == "products:list:skip:0:limit:100"

\* category_service.py:65  build_key("categories", "id", id=id_key)
CategoryKey(c) == "categories:id:id:" \o ToString(c)

\* category_service.py:38-43  build_key("categories", "list", skip=0, limit=100)
CategoryListKey == "categories:list:skip:0:limit:100"

\* The keys in use: the key of tests/test_concurrency.py:472, and the keys of
\* the products and of the categories.
DataKey == "expensive_data"
ProductKeys == {ProductKey(p) : p \in Products} \cup {ProductListKey}
CategoryKeys == {CategoryKey(c) : c \in Categories} \cup {CategoryListKey}
CacheKeys == {DataKey} \cup ProductKeys \cup CategoryKeys

\* product_service.py:171, category_service.py:123  the patterns of
\* _invalidate_list_cache and _invalidate_all_cache
ProductListPattern == "products:list:*"
CategoryPattern == "categories:*"

\* cache_service.py:136  redis_client.keys(pattern): the keys in use that
\* the pattern matches.
Matching(pattern) ==
    IF pattern = ProductListPattern THEN {ProductListKey}
    ELSE IF pattern = CategoryPattern THEN CategoryKeys
    ELSE {}

\* No entry under a key; an entry is <<text, value it was set from, ttl>>.
Nil == <<>>

\* cache_service.py:37-39  is_available()
IsAvailable == redisClient

\* cache_service.py:41-68  get(): None when the cache is unavailable, when the
\* store raises (ok = FALSE) and when the key has no entry.
GetValue(k, ok) ==
    IF ~IsAvailable \/ ~ok \/ cache[k] = Nil THEN PyNone ELSE Deserialize(cache[k][1])

\* cache_service.py:90  ttl = ttl or self.default_ttl
EffectiveTtl(ttl) == IF ttl = None THEN default_ttl ELSE ttl

\* cache_service.py:70-101  set() returns True
SetOk(v, ok) == IsAvailable /\ Serializable(v) /\ ok

\* cache_service.py:92-96  setex(key, ttl, serialized): the entry of a key
Entry(v, ttl) == <<Serialize(v), v, EffectiveTtl(ttl)>>

\* cache_service.py:70-101  the entries after set(k, v, ttl)
AfterSet(k, v, ttl, ok) ==
    IF SetOk(v, ok) THEN [cache EXCEPT ![k] = Entry(v, ttl)] ELSE cache

\* cache_service.py:103-121  the entries after delete(k)
AfterDelete(k, ok) ==
    IF IsAvailable /\ ok THEN [cache EXCEPT ![k] = Nil] ELSE cache

\* cache_service.py:123-142  the entries after delete_pattern(pattern)
AfterDeletePattern(pattern, ok) ==
    IF IsAvailable /\ ok
    THEN [k \in DOMAIN cache |-> IF k \in Matching(pattern) THEN Nil ELSE cache[k]]
    ELSE cache

\* No rate limiter is configured.
NoLimiter == [calls |-> 0, count |-> <<>>]

\* The locals of a call that has not started.
NoFrame ==
    [op |-> "none", current |-> None, ttl |-> None, key |-> "", attempt |-> 0,
     sleeps |-> 0, computes |-> 0, value |-> Nil, ret |-> Nil, locked |-> FALSE,
     erred |-> FALSE, released |-> FALSE, rows |-> {}]

\* The store and its callers at rest: no entry and no lock.
StoreAtRest(ws) ==
    /\ cache = [k \in CacheKeys |-> Nil]
    /\ lockKey = [k \in CacheKeys |-> None]
    /\ frame = [w \in ws |-> NoFrame]

\* ---- requests and initial states ------------------------------------------

SaveInputs ==
    {Schema("save", None, q, None, 1, p) : q \in 1..MaxQuantity, p \in Products}
    \cup {Schema("save", None, 1, ProductPrice(1) + d, 1, 1) : d \in {0, 1, 2, 0 - 2}}
    \cup {Schema("save", None, MaxStock + 1, ProductPrice(1) + 2, 1, 1),
          Schema("save", None, 1, None, 2, 1),
          Schema("save", None, 1, None, 1, 3)}

UpdateInputs ==
    {Schema("update", id, q, None, 1, p) :
        id \in LineIds, q \in 1..MaxQuantity, p \in Products}
    \cup {Schema("update", 1, 1, ProductPrice(1) + 1, 1, 1),
          Schema("update", 1, 1, None, 2, 1),
          Schema("update", 1, 1, None, 1, 3)}

\* The order_details rows a database can hold when the workers start: rows
\* 1..k of product 1, each reserved at the product's price.
SeedRows ==
    {[quantity |-> q, price |-> ProductPrice(1), order_id |-> 1, product_id |-> 1] :
        q \in 1..MaxQuantity}

Seeds ==
    {f \in [LineIds -> SeedRows \cup {NoLine}] :
        \A i, j \in LineIds : (i < j /\ f[j] # NoLine) => f[i] # NoLine}

\* The quantity the rows hold of product p.
RECURSIVE SumOver(_, _, _)
SumOver(rows, ids, p) ==
    IF ids = {} THEN 0
    ELSE LET i == CHOOSE x \in ids : TRUE
         IN  (IF rows[i] # NoLine /\ rows[i].product_id = p THEN rows[i].quantity ELSE 0)
             + SumOver(rows, ids \ {i}, p)

Reserved(p) == SumOver(lines, DOMAIN lines, p)

Saving == {w \in DOMAIN pc : pc[w] \in {"save", "save_locked"}}

\* The workers at rest, with no session open.
AtRest(ws) ==
    /\ locks = {}
    /\ pc = [w \in ws |-> "idle"]
    /\ req = [w \in ws |-> NoReq]
    /\ existing = [w \in ws |-> NoLine]
    /\ loaded = [w \in ws |-> {}]
    /\ pending = [w \in ws |-> {}]
    /\ result = [w \in ws |-> "none"]

Init ==
    /\ stock \in [Products -> 0..MaxStock]
    /\ lines \in Seeds
    /\ stock0 = [p \in Products |-> stock[p] + Reserved(p)]
    /\ nextId = 1 + Cardinality({i \in LineIds : lines[i] # NoLine})
    /\ AtRest(Workers)
    /\ live = Products
    /\ categories = [c \in Categories |-> CategoryName]
    /\ redisClient = TRUE
    /\ StoreAtRest(Workers)
    /\ limiter = NoLimiter

\* What is left of a request once it has its outcome: the operation it was and
\* the row it was about.
Over(r) == [NoReq EXCEPT !.op = r.op, !.id_key = r.id_key]

\* The session of worker w holds nothing any more.
Forget(w) ==
    /\ existing' = [existing EXCEPT ![w] = NoLine]
    /\ loaded' = [loaded EXCEPT ![w] = {}]
    /\ pending' = [pending EXCEPT ![w] = {}]

\* The request r of worker w raises `err`.  Its session stays open, with the
\* locks it holds, until get_db closes it; nothing it holds is committed any
\* more.
Raise(w, r, err) ==
    /\ pc' = [pc EXCEPT ![w] = "raised"]
    /\ result' = [result EXCEPT ![w] = err]
    /\ req' = [req EXCEPT ![w] = Over(r)]
    /\ Forget(w)

\* The request r of worker w is over, with outcome `res`.
Finish(w, r, res) ==
    /\ pc' = [pc EXCEPT ![w] = "done"]
    /\ result' = [result EXCEPT ![w] = res]
    /\ req' = [req EXCEPT ![w] = Over(r)]
    /\ Forget(w)

\* ---- Reserve: OrderDetailService.save -------------------------------------

\* save() up to the order lookup (lines 51-56).
SaveBegin(w, schema) ==
    /\ pc[w] = "idle"
    /\ nextId + Cardinality(Saving) \in DOMAIN lines
    /\ IF schema.order_id \notin Orders
       THEN Raise(w, schema, "NotFound")
       ELSE /\ req' = [req EXCEPT ![w] = schema]
            /\ pc' = [pc EXCEPT ![w] = "save"]
            /\ UNCHANGED <<result, existing, loaded, pending>>
    /\ UNCHANGED <<stock, lines, nextId, locks, stock0>>
    /\ UNCHANGED <<live, categories, cacheVars>>

ReserveBegin(w) == \E schema \in SaveInputs : SaveBegin(w, schema)

\* save() from the locked select to the stock deduction (lines 60-102).
ReserveLock(w) ==
    /\ pc[w] = "save"
    /\ LET p == req[w].product_id
           q == req[w].quantity
       IN  IF p \notin live
           THEN /\ Raise(w, req[w], "NotFound")
                /\ UNCHANGED locks
           ELSE /\ LockFree(p)
                /\ locks' = Acquire(w, p)
                /\ LET s == LockedStock(w, p)
                       price == EffectivePrice(req[w].price, ProductPrice(p))
                   IN  IF InsufficientStock(s, q)
                       THEN Raise(w, req[w], "InsufficientStock")
                       ELSE IF PriceMismatch(price, ProductPrice(p))
                       THEN Raise(w, req[w], "ValidationError")
                       ELSE /\ pc' = [pc EXCEPT ![w] = "save_locked"]
                            /\ req' = [req EXCEPT ![w].price = price]
                            /\ pending' = [pending EXCEPT ![w] = {<<p, StockAfterReserve(s, q)>>}]
                            /\ UNCHANGED <<result, existing, loaded>>
    /\ UNCHANGED <<stock, lines, nextId, stock0>>
    /\ UNCHANGED <<live, categories, cacheVars>>

\* BaseRepositoryImpl.save: add, commit (lines 136-140), or rollback when the
\* flush is rejected (lines 141-144).
ReserveCommit(w) ==
    /\ pc[w] = "save_locked"
    /\ IF ConstraintHolds(w)
       THEN /\ stock' = Flushed(w)
            /\ lines' = [lines EXCEPT ![nextId] = ToModel(req[w])]
            /\ nextId' = nextId + 1
            /\ Finish(w, [req[w] EXCEPT !.id_key = nextId], "ok")
       ELSE /\ stock' = Rollback(w)
            /\ Finish(w, req[w], "PersistenceError")
            /\ UNCHANGED <<lines, nextId>>
    /\ locks' = Unlocked(w)
    /\ UNCHANGED stock0
    /\ UNCHANGED <<live, categories, cacheVars>>

\* ---- Adjust: OrderDetailService.update ------------------------------------

\* update() up to the order lookup (lines 144-153).
UpdateBegin(w, schema) ==
    /\ pc[w] = "idle"
    /\ LET row == lines[schema.id_key]
       IN  IF row = NoLine \/ schema.order_id \notin Orders
           THEN Raise(w, schema, "NotFound")
           ELSE /\ req' = [req EXCEPT ![w] = schema]
                /\ existing' = [existing EXCEPT ![w] = row]
                /\ loaded' = [loaded EXCEPT ![w] =
                                {<<row.product_id, stock[row.product_id]>>}]
                /\ pc' = [pc EXCEPT ![w] = "update"]
                /\ UNCHANGED <<result, pending>>
    /\ UNCHANGED <<stock, lines, nextId, locks, stock0>>
    /\ UNCHANGED <<live, categories, cacheVars>>

AdjustBegin(w) == \E schema \in UpdateInputs : UpdateBegin(w, schema)

\* update() from the locked select to the stock adjustment (lines 156-199).
AdjustLock(w) ==
    /\ pc[w] = "update"
    /\ LET p == EffectiveProduct(req[w].product_id, existing[w].product_id)
       IN  IF p \notin live
           THEN /\ Raise(w, req[w], "NotFound")
                /\ UNCHANGED locks
           ELSE /\ LockFree(p)
                /\ locks' = Acquire(w, p)
                /\ LET s == LockedStock(w, p)
                       diff == QuantityDiff(req[w].quantity, existing[w].quantity)
                   IN  IF req[w].quantity # None /\ req[w].quantity # existing[w].quantity
                       THEN IF InsufficientForIncrease(s, diff)
                            THEN Raise(w, req[w], "InsufficientStock")
                            ELSE /\ pc' = [pc EXCEPT ![w] = "update_locked"]
                                 /\ pending' = [pending EXCEPT ![w] = {<<p, s - diff>>}]
                                 /\ UNCHANGED <<result, req, existing, loaded>>
                       ELSE /\ pc' = [pc EXCEPT ![w] = "update_locked"]
                            /\ UNCHANGED <<pending, result, req, existing, loaded>>
    /\ UNCHANGED <<stock, lines, nextId, stock0>>
    /\ UNCHANGED <<live, categories, cacheVars>>

\* BaseRepositoryImpl.update (lines 172-238): the row is looked up again,
\* changed and committed; a missing row raises without a rollback.
AdjustCommit(w) ==
    /\ pc[w] = "update_locked"
    /\ LET id == req[w].id_key
       IN  IF lines[id] = NoLine
           THEN /\ Raise(w, req[w], "NotFound")
                /\ UNCHANGED <<stock, lines, locks>>
           ELSE /\ IF ConstraintHolds(w)
                   THEN /\ stock' = Flushed(w)
                        /\ lines' = [lines EXCEPT ![id] =
                                       Updated(lines[id], existing[w], Changes(req[w]))]
                        /\ Finish(w, req[w], "ok")
                   ELSE /\ stock' = Rollback(w)
                        /\ Finish(w, req[w], "PersistenceError")
                        /\ UNCHANGED lines
                /\ locks' = Unlocked(w)
    /\ UNCHANGED <<nextId, stock0>>
    /\ UNCHANGED <<live, categories, cacheVars>>

\* ---- Release: OrderDetailService.delete -----------------------------------

\* delete() up to find() (line 220).
ReleaseBegin(w) ==
    /\ pc[w] = "idle"
    /\ \E id \in LineIds :
         LET r == [NoReq EXCEPT !.op = "delete", !.id_key = id]
         IN  IF lines[id] = NoLine
             THEN Raise(w, r, "NotFound")
             ELSE /\ req' = [req EXCEPT ![w] = r]
                  /\ existing' = [existing EXCEPT ![w] = lines[id]]
                  /\ loaded' = [loaded EXCEPT ![w] =
                                  {<<lines[id].product_id, stock[lines[id].product_id]>>}]
                  /\ pc' = [pc EXCEPT ![w] = "delete"]
                  /\ UNCHANGED <<result, pending>>
    /\ UNCHANGED <<stock, lines, nextId, locks, stock0>>
    /\ UNCHANGED <<live, categories, cacheVars>>

\* delete() from the locked select to the stock restoration (lines 223-242).
ReleaseLock(w) ==
    /\ pc[w] = "delete"
    /\ LET p == existing[w].product_id
       IN  IF p \notin live
           THEN /\ Raise(w, req[w], "NotFound")
                /\ UNCHANGED locks
           ELSE /\ LockFree(p)
                /\ locks' = Acquire(w, p)
                /\ pc' = [pc EXCEPT ![w] = "delete_locked"]
                /\ pending' = [pending EXCEPT ![w] =
                      {<<p, StockAfterRelease(LockedStock(w, p), existing[w].quantity)>>}]
                /\ UNCHANGED <<result, req, existing, loaded>>
    /\ UNCHANGED <<stock, lines, nextId, stock0>>
    /\ UNCHANGED <<live, categories, cacheVars>>

\* remove() that deletes without looking the row up again.
ReleaseCommitMut(w) ==
    /\ pc[w] = "delete_locked"
    /\ stock' = Flushed(w)
    /\ lines' = [lines EXCEPT ![req[w].id_key] = NoLine]
    /\ Finish(w, req[w], "ok")
    /\ locks' = Unlocked(w)
    /\ UNCHANGED <<nextId, stock0>>
    /\ UNCHANGED <<live, categories, cacheVars>>

\* BaseRepositoryImpl.remove (lines 250-266): the row is looked up again,
\* deleted and committed; a missing row raises without a rollback.
ReleaseCommit(w) ==
    /\ pc[w] = "delete_locked"
    /\ LET id == req[w].id_key
       IN  IF lines[id] = NoLine
           THEN /\ Raise(w, req[w], "NotFound")
                /\ UNCHANGED <<stock, lines, locks>>
           ELSE /\ IF ConstraintHolds(w)
                   THEN /\ stock' = Flushed(w)
                        /\ lines' = [lines EXCEPT ![id] = NoLine]
                        /\ Finish(w, req[w], "ok")
                   ELSE /\ stock' = Rollback(w)
                        /\ Finish(w, req[w], "PersistenceError")
                        /\ UNCHANGED lines
                /\ locks' = Unlocked(w)
    /\ UNCHANGED <<nextId, stock0>>
    /\ UNCHANGED <<live, categories, cacheVars>>

\* ---- the end of a request --------------------------------------------------

\* The commit fails in the database: the repository rolls back and re-raises
\* (base_repository_impl.py:141-144, 235-238, 263-266).
CommitFail(w) ==
    /\ pc[w] \in {"save_locked", "update_locked", "delete_locked"}
    /\ stock' = Rollback(w)
    /\ Finish(w, req[w], "PersistenceError")
    /\ locks' = Unlocked(w)
    /\ UNCHANGED <<lines, nextId, stock0>>
    /\ UNCHANGED <<live, categories, cacheVars>>

\* get_db closes the session of a request that raised: what it had not
\* committed is rolled back and its locks are released.
Close(w) ==
    /\ pc[w] = "raised"
    /\ Finish(w, req[w], result[w])
    /\ locks' = Unlocked(w)
    /\ UNCHANGED <<stock, lines, nextId, stock0>>
    /\ UNCHANGED <<live, categories, cacheVars>>

Next ==
    \E w \in Workers :
        \/ ReserveBegin(w) \/ ReserveLock(w) \/ ReserveCommit(w)
        \/ AdjustBegin(w) \/ AdjustLock(w) \/ AdjustCommit(w)
        \/ ReleaseBegin(w) \/ ReleaseLock(w) \/ ReleaseCommit(w)
        \/ CommitFail(w) \/ Close(w)

Spec == Init /\ [][Next]_vars

\* ---- the engine under fair scheduling ---------------------------------------

\* A request in flight goes on: its thread is scheduled, the database grants
\* a free row lock, and get_db closes the session of a request that raised
\* (database.py:59-73).  Requests need not arrive, and a commit need not fail.
Progress(w) ==
    \/ ReserveLock(w) \/ ReserveCommit(w)
    \/ AdjustLock(w) \/ AdjustCommit(w)
    \/ ReleaseLock(w) \/ ReleaseCommit(w)
    \/ Close(w)

\* The second product starts fully stocked.
InitFair == Init /\ stock[2] = MaxStock

SpecFair == InitFair /\ [][Next]_vars /\ \A w \in Workers : WF_vars(Progress(w))

\* ---- the whole system: the products endpoint too ---------------------------

\* base_repository_impl.py:226  setattr(instance, "stock", value): the session
\* has a change to flush when the value is not the one it loaded.
StockChange(p, held, s) == IF s = held THEN {} ELSE {<<p, s>>}

\* product_service.py:124-127, category_service.py:112-115  the except block of
\* update(): the error is logged and raised again, the cache is left as it is.
AfterUpdateErrorMut(k) == [cache EXCEPT ![k] = Nil]
AfterUpdateError(k) == cache

\* update() of worker w raises `err`.
UpdateRaise(w, r, k, err) ==
    /\ Raise(w, r, err)
    /\ cache' = AfterUpdateError(k)
    /\ UNCHANGED <<redisClient, lockKey, limiter, frame>>

\* ProductService.update -> BaseRepositoryImpl.update (product_service.py:111-115,
\* base_repository_impl.py:172-226): the product is selected without a lock;
\* a missing row raises, and a field that may not be updated (valid = FALSE)
\* raises after a rollback; else the stock is set in the session from the
\* schema (ge=0).
ProductUpdateBegin(w, p, s, valid) ==
    /\ pc[w] = "idle"
    /\ LET r == [NoReq EXCEPT !.op = "product_update", !.id_key = p]
       IN  IF p \notin live
           THEN UpdateRaise(w, r, ProductKey(p), "NotFound")
           ELSE IF ~valid
           THEN UpdateRaise(w, r, ProductKey(p), "ValueError")
           ELSE /\ req' = [req EXCEPT ![w] = r]
                /\ pending' = [pending EXCEPT ![w] = StockChange(p, stock[p], s)]
                /\ pc' = [pc EXCEPT ![w] = "pupdate"]
                /\ UNCHANGED <<result, existing, loaded, cacheVars>>
    /\ UNCHANGED <<stock, lines, nextId, locks, stock0, live, categories>>

\* base_repository_impl.py:228  session.commit(): the UPDATE of the row waits
\* for a holder of the row's lock.
ProductUpdateCommit(w) ==
    /\ pc[w] = "pupdate"
    /\ LET p == req[w].id_key
       IN  /\ pending[w] # {} => LockFree(p)
           /\ stock' = Flushed(w)
           /\ stock0' = [stock0 EXCEPT ![p] = stock0[p] + Flushed(w)[p] - stock[p]]
    /\ pending' = [pending EXCEPT ![w] = {}]
    /\ pc' = [pc EXCEPT ![w] = "pupdate_committed"]
    /\ UNCHANGED <<lines, nextId, locks, req, existing, loaded, result>>
    /\ UNCHANGED <<live, categories, cacheVars>>

\* product_service.py:118  self.cache.delete(cache_key), once update() has
\* returned.
ProductUpdateInvalidate(w, ok) ==
    /\ pc[w] = "pupdate_committed"
    /\ cache' = AfterDelete(ProductKey(req[w].id_key), ok)
    /\ pc' = [pc EXCEPT ![w] = "pupdate_lists"]
    /\ UNCHANGED <<redisClient, lockKey, limiter, frame, result>>
    /\ UNCHANGED dbVars

\* product_service.py:119-122  self._invalidate_list_cache(); return product
ProductUpdateInvalidateLists(w, ok) ==
    /\ pc[w] = "pupdate_lists"
    /\ cache' = AfterDeletePattern(ProductListPattern, ok)
    /\ Finish(w, req[w], "ok")
    /\ UNCHANGED <<stock, lines, nextId, locks, stock0, live, categories>>
    /\ UNCHANGED <<redisClient, lockKey, limiter, frame>>

\* CategoryService.update -> BaseRepositoryImpl.update (category_service.py:
\* 102-105, base_repository_impl.py:172-226): as for a product, with the
\* category's name set in the session.
CategoryUpdateBegin(w, c, name, valid) ==
    /\ pc[w] = "idle"
    /\ LET r == [NoReq EXCEPT !.op = "category_update", !.id_key = c]
       IN  IF c \notin Categories
           THEN UpdateRaise(w, r, CategoryListKey, "NotFound")
           ELSE IF ~valid
           THEN UpdateRaise(w, r, CategoryListKey, "ValueError")
           ELSE /\ req' = [req EXCEPT ![w] = r]
                /\ frame' = [frame EXCEPT ![w] = [NoFrame EXCEPT !.value = Str(name)]]
                /\ pc' = [pc EXCEPT ![w] = "cupdate"]
                /\ UNCHANGED <<result, existing, loaded, pending>>
                /\ UNCHANGED <<redisClient, cache, lockKey, limiter>>
    /\ UNCHANGED <<stock, lines, nextId, locks, stock0, live, categories>>

\* base_repository_impl.py:228  session.commit() of the category's new name.
CategoryUpdateCommit(w) ==
    /\ pc[w] = "cupdate"
    /\ categories' = [categories EXCEPT ![req[w].id_key] = frame[w].value[2]]
    /\ pc' = [pc EXCEPT ![w] = "cupdate_committed"]
    /\ UNCHANGED <<stock, lines, nextId, locks, req, existing, loaded, pending, result,
                   stock0, live, cacheVars>>

\* category_service.py:107-110  self._invalidate_all_cache(); return category
CategoryUpdateInvalidate(w, ok) ==
    /\ pc[w] = "cupdate_committed"
    /\ cache' = AfterDeletePattern(CategoryPattern, ok)
    /\ Finish(w, req[w], "ok")
    /\ UNCHANGED <<stock, lines, nextId, locks, stock0, live, categories>>
    /\ UNCHANGED <<redisClient, lockKey, limiter, frame>>

\* base_repository_impl.py:228-238  the commit raises and is rolled back, or
\* the refresh or the validation of the committed row raises: update() raises.
UpdateFail(w) ==
    /\ pc[w] \in {"pupdate", "cupdate", "pupdate_committed", "cupdate_committed"}
    /\ stock' = Rollback(w)
    /\ Finish(w, req[w], "PersistenceError")
    /\ cache' = AfterUpdateError(IF req[w].op = "product_update"
                                 THEN ProductKey(req[w].id_key)
                                 ELSE CategoryListKey)
    /\ UNCHANGED <<lines, nextId, locks, stock0, live, categories>>
    /\ UNCHANGED <<redisClient, lockKey, limiter, frame>>

\* The steps of ProductService.update.
ProductUpdate(w) ==
    \/ \E p \in ProductIds, s \in 0..MaxStock, valid \in BOOLEAN :
          ProductUpdateBegin(w, p, s, valid)
    \/ ProductUpdateCommit(w)
    \/ \E ok \in BOOLEAN : ProductUpdateInvalidate(w, ok) \/ ProductUpdateInvalidateLists(w, ok)

\* The steps of CategoryService.update.
CategoryUpdate(w) ==
    \/ \E c \in CategoryIds, name \in CategoryNames, valid \in BOOLEAN :
          CategoryUpdateBegin(w, c, name, valid)
    \/ CategoryUpdateCommit(w)
    \/ \E ok \in BOOLEAN : CategoryUpdateInvalidate(w, ok)

NextSystem ==
    \/ Next
    \/ \E w \in Workers : ProductUpdate(w) \/ UpdateFail(w)

SpecSystem == Init /\ [][NextSystem]_vars

\* ---- scenario: more Reserve calls than units in stock ----------------------

\* tests/test_concurrency.py:27-168: a product with stock S and N > S
\* concurrent Reserve calls of quantity 1 at the product's price.
Callers == 1..(MaxStock + 1)

InitOversell ==
    /\ stock \in {[p \in Products |-> IF p = 1 THEN s ELSE 0] : s \in 0..MaxStock}
    /\ lines = [i \in Callers |-> NoLine]
    /\ stock0 = stock
    /\ nextId = 1
    /\ AtRest(Callers)
    /\ live = Products
    /\ categories = [c \in Categories |-> CategoryName]
    /\ redisClient = TRUE
    /\ StoreAtRest(Callers)
    /\ limiter = NoLimiter

OversellCall(w) ==
    \E price \in {None, ProductPrice(1)} : SaveBegin(w, Schema("save", None, 1, price, 1, 1))

NextOversell ==
    \E w \in Callers :
        OversellCall(w) \/ ReserveLock(w) \/ ReserveCommit(w) \/ Close(w)

SpecOversell == InitOversell /\ [][NextOversell]_vars

\* ---- scenario: concurrent Adjusts of one line ------------------------------

\* tests/test_concurrency.py:171-314: one line of quantity 1 on a product
\* whose stock covers every requested increase, and concurrent Adjust calls
\* each asking for a larger quantity.  No request of this scenario raises.
InitAdjusts ==
    /\ stock = [p \in Products |-> IF p = 1 THEN MaxStock ELSE 0]
    /\ lines = [i \in LineIds |->
                  IF i = 1
                  THEN [quantity |-> 1, price |-> ProductPrice(1), order_id |-> 1,
                        product_id |-> 1]
                  ELSE NoLine]
    /\ stock0 = [p \in Products |-> stock[p] + Reserved(p)]
    /\ nextId = 2
    /\ AtRest(Callers)
    /\ live = Products
    /\ categories = [c \in Categories |-> CategoryName]
    /\ redisClient = TRUE
    /\ StoreAtRest(Callers)
    /\ limiter = NoLimiter

AdjustCall(w) ==
    \E q \in 2..(MaxStock + 1) : UpdateBegin(w, Schema("update", 1, q, None, 1, 1))

NextAdjusts ==
    \E w \in Callers :
        AdjustCall(w) \/ AdjustLock(w) \/ AdjustCommit(w)

SpecAdjusts == InitAdjusts /\ [][NextAdjusts]_vars

\* ---- CacheService: get, set, delete ---------------------------------------

\* The call of worker w returns: `f` are its locals then.
Return(w, f) ==
    /\ frame' = [frame EXCEPT ![w] = f]
    /\ pc' = [pc EXCEPT ![w] = "done"]
    /\ result' = [result EXCEPT ![w] = "returned"]

\* The call of worker w raises `err` to its caller.
Throw(w, f, err) ==
    /\ frame' = [frame EXCEPT ![w] = f]
    /\ pc' = [pc EXCEPT ![w] = "done"]
    /\ result' = [result EXCEPT ![w] = err]

\* The call of worker w goes on at `at`.
Goto(w, f, at) ==
    /\ frame' = [frame EXCEPT ![w] = f]
    /\ pc' = [pc EXCEPT ![w] = at]
    /\ UNCHANGED result

\* The locals once a store call of the call has raised or not (ok).
Noted(f, ok) == [f EXCEPT !.erred = f.erred \/ (IsAvailable /\ ~ok)]

\* cache_service.py:41-68  get(key)
CacheGet(w, k, ok) ==
    /\ pc[w] = "idle"
    /\ Return(w, Noted([NoFrame EXCEPT !.op = "get", !.key = k,
                                       !.ret = GetValue(k, ok)], ok))
    /\ UNCHANGED <<redisClient, cache, lockKey, limiter>>
    /\ UNCHANGED dbVars

\* cache_service.py:70-101  set(key, value, ttl)
CacheSet(w, k, v, ttl, ok) ==
    /\ pc[w] = "idle"
    /\ cache' = AfterSet(k, v, ttl, ok)
    /\ Return(w, Noted([NoFrame EXCEPT !.op = "set", !.key = k, !.value = v, !.ttl = ttl,
                                       !.ret = IF SetOk(v, ok) THEN PyTrue ELSE PyFalse],
                       ok))
    /\ UNCHANGED <<redisClient, lockKey, limiter>>
    /\ UNCHANGED dbVars

\* cache_service.py:103-121  delete(key)
CacheDelete(w, k, ok) ==
    /\ pc[w] = "idle"
    /\ cache' = AfterDelete(k, ok)
    /\ Return(w, Noted([NoFrame EXCEPT !.op = "delete", !.key = k,
                                       !.ret = IF IsAvailable /\ ok THEN PyTrue ELSE PyFalse],
                       ok))
    /\ UNCHANGED <<redisClient, lockKey, limiter>>
    /\ UNCHANGED dbVars

\* The store drops an entry whose ttl has run out.
EntryExpire(k) ==
    /\ cache[k] # Nil
    /\ cache' = [cache EXCEPT ![k] = Nil]
    /\ UNCHANGED <<redisClient, lockKey, limiter, frame, pc, result>>
    /\ UNCHANGED dbVars

\* The store drops a lock:<key> entry after lock_timeout (cache_service.py:35,
\* 219-224).
LockExpire(k) ==
    /\ lockKey[k] # None
    /\ lockKey' = [lockKey EXCEPT ![k] = None]
    /\ UNCHANGED <<redisClient, cache, limiter, frame, pc, result>>
    /\ UNCHANGED dbVars

\* ---- CacheService.get_or_set ------------------------------------------------

\* What compute_fn can do: return one of these, or raise.
ComputeResults == {<<"dict", "{\"data\": 1}">>, <<"dict", "{\"data\": 2}">>}
Raises == <<"raise", "ComputeError">>

\* cache_service.py:199-214  the availability check and the fast path.
GetOrSetBegin(w, k, ttl, ok) ==
    /\ pc[w] = "idle"
    /\ LET f == Noted([NoFrame EXCEPT !.op = "get_or_set", !.key = k, !.ttl = ttl], ok)
           v == GetValue(k, ok)
       IN  IF ~IsAvailable
           THEN Goto(w, f, "goc_direct")
           ELSE IF v # PyNone
                THEN Return(w, [f EXCEPT !.ret = v])
                ELSE Goto(w, f, "goc_try")
    /\ UNCHANGED <<redisClient, cache, lockKey, limiter>>
    /\ UNCHANGED dbVars

\* cache_service.py:219-224  SET lock:<key> "1" NX EX lock_timeout: the entry
\* is set when there is none.
LockAcquired(k) == lockKey[k] = None

\* cache_service.py:217-226, 257-259  one pass of the retry loop up to the
\* lock attempt; an error of the store is not caught here.
GocTry(w, ok) ==
    /\ pc[w] = "goc_try"
    /\ LET k == frame[w].key
           f == Noted([frame[w] EXCEPT !.attempt = @ + 1], ok)
       IN  IF ~ok
           THEN /\ Throw(w, f, "StoreError")
                /\ UNCHANGED lockKey
           ELSE IF LockAcquired(k)
                THEN /\ lockKey' = [lockKey EXCEPT ![k] = w]
                     /\ Goto(w, [f EXCEPT !.locked = TRUE], "goc_locked")
                ELSE /\ Goto(w, f, "goc_sleep")
                     /\ UNCHANGED lockKey
    /\ UNCHANGED <<redisClient, cache, limiter>>
    /\ UNCHANGED dbVars

\* get_or_set without the double check: the holder of the lock computes.
GocDoubleCheckMut(w, ok) ==
    /\ pc[w] = "goc_locked"
    /\ Goto(w, Noted(frame[w], ok), "goc_compute")
    /\ UNCHANGED <<redisClient, cache, lockKey, limiter>>
    /\ UNCHANGED dbVars

\* cache_service.py:229-234  the double check under the lock.
GocDoubleCheck(w, ok) ==
    /\ pc[w] = "goc_locked"
    /\ LET v == GetValue(frame[w].key, ok)
           f == Noted(frame[w], ok)
       IN  IF v # PyNone
           THEN Goto(w, [f EXCEPT !.ret = v], "goc_release")
           ELSE Goto(w, f, "goc_compute")
    /\ UNCHANGED <<redisClient, cache, lockKey, limiter>>
    /\ UNCHANGED dbVars

\* cache_service.py:236-247  callback() under the lock; what it raises is
\* raised again once the lock is released.
GocCompute(w, out) ==
    /\ pc[w] = "goc_compute"
    /\ LET f == [frame[w] EXCEPT !.computes = @ + 1]
       IN  IF out = Raises
           THEN /\ frame' = [frame EXCEPT ![w] = f]
                /\ pc' = [pc EXCEPT ![w] = "goc_release"]
                /\ result' = [result EXCEPT ![w] = "ComputeError"]
           ELSE Goto(w, [f EXCEPT !.value = out], "goc_store")
    /\ UNCHANGED <<redisClient, cache, lockKey, limiter>>
    /\ UNCHANGED dbVars

\* The locked branch without its `return value`: the call goes on to the
\* computation after the loop.
GocStoreMut(w, ok) ==
    /\ pc[w] = "goc_store"
    /\ cache' = AfterSet(frame[w].key, frame[w].value, frame[w].ttl, ok)
    /\ Goto(w, Noted([frame[w] EXCEPT !.ret = frame[w].value], ok), "goc_fallback")
    /\ UNCHANGED <<redisClient, lockKey, limiter>>
    /\ UNCHANGED dbVars

\* cache_service.py:240-243  self.set(key, value, ttl); return value
GocStore(w, ok) ==
    /\ pc[w] = "goc_store"
    /\ cache' = AfterSet(frame[w].key, frame[w].value, frame[w].ttl, ok)
    /\ Goto(w, Noted([frame[w] EXCEPT !.ret = frame[w].value], ok), "goc_release")
    /\ UNCHANGED <<redisClient, lockKey, limiter>>
    /\ UNCHANGED dbVars

\* cache_service.py:249-255  the finally block: DEL lock:<key>, whoever set
\* it; an error of the store is logged and dropped.
AfterReleaseMut(k, ok) == lockKey
AfterRelease(k, ok) == IF ok THEN [lockKey EXCEPT ![k] = None] ELSE lockKey

GocRelease(w, ok) ==
    /\ pc[w] = "goc_release"
    /\ lockKey' = AfterRelease(frame[w].key, ok)
    /\ LET f == Noted([frame[w] EXCEPT !.released = ok], ok)
       IN  IF result[w] = "ComputeError"
           THEN Throw(w, f, "ComputeError")
           ELSE Return(w, f)
    /\ UNCHANGED <<redisClient, cache, limiter>>
    /\ UNCHANGED dbVars

\* cache_service.py:217  for attempt in range(max_retries)
RetriesLeft(attempt) == attempt < max_retries

\* cache_service.py:261-270  the lock is taken: sleep, then look again.
GocSleep(w, ok) ==
    /\ pc[w] = "goc_sleep"
    /\ LET v == GetValue(frame[w].key, ok)
           f == Noted([frame[w] EXCEPT !.sleeps = @ + 1], ok)
       IN  IF v # PyNone
           THEN Return(w, [f EXCEPT !.ret = v])
           ELSE IF RetriesLeft(f.attempt)
                THEN Goto(w, f, "goc_try")
                ELSE Goto(w, f, "goc_fallback")
    /\ UNCHANGED <<redisClient, cache, lockKey, limiter>>
    /\ UNCHANGED dbVars

\* cache_service.py:199-202, 272-279  callback() without the lock: the cache
\* is unavailable, or the retries are used up.
GocFallback(w, out) ==
    /\ pc[w] \in {"goc_direct", "goc_fallback"}
    /\ LET f == [frame[w] EXCEPT !.computes = @ + 1]
       IN  IF out = Raises
           THEN Throw(w, f, "ComputeError")
           ELSE IF pc[w] = "goc_direct"
                THEN Return(w, [f EXCEPT !.value = out, !.ret = out])
                ELSE Goto(w, [f EXCEPT !.value = out], "goc_fallback_store")
    /\ UNCHANGED <<redisClient, cache, lockKey, limiter>>
    /\ UNCHANGED dbVars

\* cache_service.py:281-285  the result is cached as well as it can be.
GocFallbackStore(w, ok) ==
    /\ pc[w] = "goc_fallback_store"
    /\ cache' = AfterSet(frame[w].key, frame[w].value, frame[w].ttl, ok)
    /\ Return(w, Noted([frame[w] EXCEPT !.ret = frame[w].value], ok))
    /\ UNCHANGED <<redisClient, lockKey, limiter>>
    /\ UNCHANGED dbVars

\* The steps of a get_or_set call in flight.
GocStep(w, oks, outs) ==
    \/ \E ok \in oks : \/ GocTry(w, ok) \/ GocDoubleCheck(w, ok) \/ GocStore(w, ok)
                      \/ GocRelease(w, ok) \/ GocSleep(w, ok) \/ GocFallbackStore(w, ok)
    \/ \E out \in outs : GocCompute(w, out) \/ GocFallback(w, out)

\* The ttl a caller passes: none, or a minute.
Ttls == {None, 60}

\* No session and no row of the database is touched by the cache's callers.
NoDatabase(ws) ==
    /\ stock = [p \in Products |-> 0]
    /\ stock0 = stock
    /\ lines = [i \in LineIds |-> NoLine]
    /\ nextId = 1
    /\ live = Products
    /\ categories = [c \in Categories |-> CategoryName]
    /\ AtRest(ws)

\* Two callers of the cache, each with one call on the same key, a store that
\* may raise at any call, and entries and locks that may expire.
InitCache ==
    /\ NoDatabase(Workers)
    /\ redisClient \in BOOLEAN
    /\ StoreAtRest(Workers)
    /\ limiter = NoLimiter

NextCache ==
    \/ \E w \in Workers, ok \in BOOLEAN :
          \/ CacheGet(w, DataKey, ok)
          \/ \E v \in Values, ttl \in Ttls : CacheSet(w, DataKey, v, ttl, ok)
          \/ CacheDelete(w, DataKey, ok)
          \/ \E ttl \in Ttls : GetOrSetBegin(w, DataKey, ttl, ok)
    \/ \E w \in Workers : GocStep(w, BOOLEAN, ComputeResults \cup {Raises})
    \/ EntryExpire(DataKey)
    \/ LockExpire(DataKey)

SpecCache == InitCache /\ [][NextCache]_vars

\* ---- scenario: many get_or_set calls on an empty cache ----------------------

\* tests/test_concurrency.py:442-507: concurrent get_or_set calls on one key
\* of an empty cache, with a store that answers every call and a compute_fn
\* that returns; it may take longer than the callers sleep.
CacheCallers == 1..(MaxStock + 1)

InitStampede ==
    /\ NoDatabase(CacheCallers)
    /\ redisClient = TRUE
    /\ StoreAtRest(CacheCallers)
    /\ limiter = NoLimiter

NextStampede ==
    \E w \in CacheCallers :
        \/ GetOrSetBegin(w, DataKey, default_ttl, TRUE)
        \/ GocStep(w, {TRUE}, ComputeResults)

SpecStampede == InitStampede /\ [][NextStampede]_vars

\* ---- ProductService.get_one, next to the order-detail operations ------------

\* product_service.py:68-74  the cache is asked first; a hit is returned.
GetOneCache(w, p, ok) ==
    /\ pc[w] = "idle"
    /\ LET k == ProductKey(p)
           f == Noted([NoFrame EXCEPT !.op = "get_one", !.key = k], ok)
           v == GetValue(k, ok)
       IN  /\ IF v # PyNone
              THEN Return(w, [f EXCEPT !.ret = v])
              ELSE Goto(w, f, "get_one_db")
           /\ req' = [req EXCEPT ![w] = [NoReq EXCEPT !.op = "get_one", !.id_key = p]]
    /\ UNCHANGED <<redisClient, cache, lockKey, limiter>>
    /\ UNCHANGED <<stock, lines, nextId, locks, existing, loaded, pending, stock0, live, categories>>

\* product_service.py:76-78  a miss: the product is read from the database,
\* as committed.
GetOneRead(w) ==
    /\ pc[w] = "get_one_db"
    /\ LET p == req[w].id_key
       IN  IF p \notin live
           THEN Throw(w, frame[w], "NotFound")
           ELSE Goto(w, [frame[w] EXCEPT !.value = ProductDump(stock[p])], "get_one_fill")
    /\ UNCHANGED <<redisClient, cache, lockKey, limiter>>
    /\ UNCHANGED dbVars

\* product_service.py:80-83  the product read is cached and returned.
GetOneFill(w, ok) ==
    /\ pc[w] = "get_one_fill"
    /\ cache' = AfterSet(frame[w].key, frame[w].value, None, ok)
    /\ Return(w, Noted([frame[w] EXCEPT !.ret = frame[w].value], ok))
    /\ UNCHANGED <<redisClient, lockKey, limiter>>
    /\ UNCHANGED dbVars

\* Two readers of product 1 through get_one and one writer with an
\* order-detail request.
Readers == {1, 2}
Writer == 3

InitReads ==
    /\ stock \in [Products -> 0..MaxStock]
    /\ lines \in Seeds
    /\ stock0 = [p \in Products |-> stock[p] + Reserved(p)]
    /\ nextId = 1 + Cardinality({i \in LineIds : lines[i] # NoLine})
    /\ AtRest(Readers \cup {Writer})
    /\ live = Products
    /\ categories = [c \in Categories |-> CategoryName]
    /\ redisClient = TRUE
    /\ StoreAtRest(Readers \cup {Writer})
    /\ limiter = NoLimiter

NextReads ==
    \/ \E w \in Readers, ok \in BOOLEAN :
          GetOneCache(w, 1, ok) \/ GetOneRead(w) \/ GetOneFill(w, ok)
    \/ ReserveBegin(Writer) \/ ReserveLock(Writer) \/ ReserveCommit(Writer)
    \/ AdjustBegin(Writer) \/ AdjustLock(Writer) \/ AdjustCommit(Writer)
    \/ ReleaseBegin(Writer) \/ ReleaseLock(Writer) \/ ReleaseCommit(Writer)
    \/ CommitFail(Writer) \/ Close(Writer)
    \/ EntryExpire(ProductKey(1))

SpecReads == InitReads /\ [][NextReads]_vars

\* ---- ProductService.delete, next to Reserve and Release ----------------------

\* The ids of the committed line items of product p.
LinesOf(p) == {i \in DOMAIN lines : lines[i] # NoLine /\ lines[i].product_id = p}

\* product_service.py:139-156  the sales-history check: an unlocked select of
\* one order_details row of the product; ValueError when there is one.
ProductDeleteBegin(w, p) ==
    /\ pc[w] = "idle"
    /\ LET r == [NoReq EXCEPT !.op = "product_delete", !.id_key = p]
       IN  IF LinesOf(p) # {}
           THEN Raise(w, r, "ValueError")
           ELSE /\ req' = [req EXCEPT ![w] = r]
                /\ pc' = [pc EXCEPT ![w] = "pdelete"]
                /\ UNCHANGED <<result, existing, loaded, pending>>
    /\ UNCHANGED <<stock, lines, nextId, locks, stock0>>
    /\ UNCHANGED <<live, categories, cacheVars>>

\* base_repository_impl.py:250-257  remove(): the product is selected, and
\* session.delete() loads its order_details for the delete cascade
\* (models/product.py:49-54).
ProductDeleteLoad(w) ==
    /\ pc[w] = "pdelete"
    /\ LET p == req[w].id_key
       IN  IF p \notin live
           THEN /\ Raise(w, req[w], "NotFound")
                /\ UNCHANGED frame
           ELSE /\ frame' = [frame EXCEPT ![w] = [NoFrame EXCEPT !.rows = LinesOf(p)]]
                /\ pc' = [pc EXCEPT ![w] = "pdelete_flush"]
                /\ UNCHANGED <<result, req, existing, loaded, pending>>
    /\ UNCHANGED <<stock, lines, nextId, locks, stock0>>
    /\ UNCHANGED <<live, categories, redisClient, cache, lockKey, limiter>>

\* models/order_detail.py:14  product_id references products.id_key: the
\* product's row cannot go while a line item the session has not deleted
\* refers to it.
ForeignKeyHolds(p, deleted) == LinesOf(p) \subseteq deleted

\* base_repository_impl.py:258-266, product_service.py:162-167  the commit: the
\* loaded line items and the product are deleted once the row's lock is free,
\* then the product's cache entry is deleted; a foreign-key violation rolls
\* everything back.
ProductDeleteCommit(w, ok) ==
    /\ pc[w] = "pdelete_flush"
    /\ LET p == req[w].id_key
       IN  /\ LockFree(p)
           /\ IF ForeignKeyHolds(p, frame[w].rows)
              THEN /\ lines' = [i \in DOMAIN lines |->
                                  IF i \in frame[w].rows THEN NoLine ELSE lines[i]]
                   /\ live' = live \ {p}
                   /\ cache' = AfterDelete(ProductKey(p), ok)
                   /\ Finish(w, req[w], "ok")
              ELSE /\ Finish(w, req[w], "PersistenceError")
                   /\ UNCHANGED <<lines, live, cache>>
    /\ frame' = [frame EXCEPT ![w] = NoFrame]
    /\ UNCHANGED <<stock, nextId, locks, stock0, categories, redisClient, lockKey, limiter>>

\* The products endpoint's delete with the order-detail requests that create
\* and remove line items.
NextCatalog ==
    \E w \in Workers :
        \/ ReserveBegin(w) \/ ReserveLock(w) \/ ReserveCommit(w)
        \/ ReleaseBegin(w) \/ ReleaseLock(w) \/ ReleaseCommit(w)
        \/ CommitFail(w) \/ Close(w)
        \/ \E p \in Products : ProductDeleteBegin(w, p)
        \/ ProductDeleteLoad(w)
        \/ \E ok \in BOOLEAN : ProductDeleteCommit(w, ok)

SpecCatalog == Init /\ [][NextCatalog]_vars

\* ---- RateLimiterMiddleware ---------------------------------------------------

\* The clients' addresses and the paths they ask for.
Ips == {"10.0.0.1", "10.0.0.2"}
HealthCheck == "/health_check"
OrderDetails == "/order_details/"
Paths == {HealthCheck, OrderDetails}

\* rate_limiter.py:134  key = f"rate_limit:{client_ip}"
RateKey(ip) == "rate_limit:" \o ip

\* endpoint_rate_limiter.py:59
\* key = f"rate_limit:endpoint:{endpoint_path}:{client_ip}"
EndpointKey(path, ip) == "rate_limit:endpoint:" \o path \o ":" \o ip

RateKeys == {RateKey(ip) : ip \in Ips} \cup {EndpointKey(OrderDetails, ip) : ip \in Ips}

\* A limiter of `calls` calls with no counter in the store.
Limiter(calls) == [calls |-> calls, count |-> [k \in RateKeys |-> 0]]

\* rate_limiter.py:60-66  no limiting without a Redis client, nor for the
\* health check.
Exempt(path) == ~IsAvailable \/ path = HealthCheck

\* rate_limiter.py:170  return current <= self.calls
WithinLimitMut(current) == current < limiter.calls
WithinLimit(current) == current <= limiter.calls

\* rate_limiter.py:137-140  INCR key and EXPIRE key in one pipeline
Incremented(k) == [limiter EXCEPT !.count[k] = @ + 1]

\* rate_limiter.py:49-87, 123-175  dispatch() up to call_next: the counter of
\* the client's address is incremented and compared; an error of the store
\* lets the request pass.
RateCheck(w, ip, path, ok) ==
    /\ pc[w] = "idle"
    /\ LET k == RateKey(ip)
           f == Noted([NoFrame EXCEPT !.op = "request", !.key = k], ok \/ Exempt(path))
       IN  /\ req' = [req EXCEPT ![w] = [NoReq EXCEPT !.op = path]]
           /\ IF Exempt(path) \/ ~ok
              THEN /\ Goto(w, f, "handler")
                   /\ UNCHANGED limiter
              ELSE /\ limiter' = Incremented(k)
                   /\ IF WithinLimit(limiter'.count[k])
                      THEN Goto(w, f, "handler")
                      ELSE Throw(w, f, "429")
    /\ UNCHANGED <<redisClient, cache, lockKey>>
    /\ UNCHANGED <<stock, lines, nextId, locks, existing, loaded, pending, stock0, live, categories>>

\* rate_limiter.py:89-98  call_next(request): the handler answers.
Handle(w) ==
    /\ pc[w] = "handler"
    /\ Throw(w, frame[w], "200")
    /\ UNCHANGED <<redisClient, cache, lockKey, limiter>>
    /\ UNCHANGED dbVars

\* The store drops a counter `period` seconds after its last EXPIRE.
CounterExpire(k) ==
    /\ limiter.count[k] > 0
    /\ limiter' = [limiter EXCEPT !.count[k] = 0]
    /\ UNCHANGED <<redisClient, cache, lockKey, frame, pc, result>>
    /\ UNCHANGED dbVars

\* More requests than any limit allows.
Clients == 1..(MaxCalls + 1)

InitRateLimit ==
    /\ NoDatabase(Clients)
    /\ redisClient \in BOOLEAN
    /\ StoreAtRest(Clients)
    /\ limiter \in {Limiter(c) : c \in 0..MaxCalls}

NextRateLimit ==
    \/ \E w \in Clients, ip \in Ips, path \in Paths, ok \in BOOLEAN :
          RateCheck(w, ip, path, ok)
    \/ \E w \in Clients : Handle(w)
    \/ \E ip \in Ips : CounterExpire(RateKey(ip))

SpecRateLimit == InitRateLimit /\ [][NextRateLimit]_vars

\* ---- EndpointRateLimiter on POST /order_details ------------------------------

\* endpoint_rate_limiter.py:61-68  the counter of the endpoint and address is
\* read; without a Redis client, and on an error of the store, the endpoint
\* runs unlimited.
EndpointRead(w, ip, ok) ==
    /\ pc[w] = "idle"
    /\ LET k == EndpointKey(OrderDetails, ip)
           f == Noted([NoFrame EXCEPT !.op = "create", !.key = k], ok)
       IN  /\ req' = [req EXCEPT ![w] = [NoReq EXCEPT !.op = OrderDetails]]
           /\ IF ~IsAvailable \/ ~ok
              THEN Goto(w, f, "endpoint")
              ELSE Goto(w, [f EXCEPT !.current = limiter.count[k]], "limit")
    /\ UNCHANGED <<redisClient, cache, lockKey, limiter>>
    /\ UNCHANGED <<stock, lines, nextId, locks, existing, loaded, pending, stock0, live, categories>>

\* endpoint_rate_limiter.py:80  if current >= self.calls
LimitReached(current) == current >= limiter.calls

\* endpoint_rate_limiter.py:70-102, 111-116  no counter was read: it is set to
\* 1; a counter at the limit: 429; else the counter is incremented.
EndpointCount(w, ok) ==
    /\ pc[w] = "limit"
    /\ LET k == frame[w].key
           f == Noted(frame[w], ok)
       IN  IF frame[w].current = None
           THEN /\ limiter' = IF ok THEN [limiter EXCEPT !.count[k] = 1] ELSE limiter
                /\ Goto(w, f, "endpoint")
           ELSE IF LimitReached(frame[w].current)
                THEN /\ Throw(w, frame[w], "429")
                     /\ UNCHANGED limiter
                ELSE /\ limiter' = IF ok THEN Incremented(k) ELSE limiter
                     /\ Goto(w, f, "endpoint")
    /\ UNCHANGED <<redisClient, cache, lockKey>>
    /\ UNCHANGED dbVars

\* endpoint_rate_limiter.py:109  the wrapped endpoint is executed
\* (order_detail_controller.py:36-49).
EndpointRun(w) ==
    /\ pc[w] = "endpoint"
    /\ Throw(w, frame[w], "201")
    /\ UNCHANGED <<redisClient, cache, lockKey, limiter>>
    /\ UNCHANGED dbVars

\* The requests of one period to POST /order_details, served by the
\* processes of run_production.py with a store that answers every call.
InitEndpoint ==
    /\ NoDatabase(Clients)
    /\ redisClient = TRUE
    /\ StoreAtRest(Clients)
    /\ limiter \in {Limiter(c) : c \in 1..MaxCalls}

NextEndpoint ==
    \E w \in Clients :
        \/ \E ip \in Ips : EndpointRead(w, ip, TRUE)
        \/ EndpointCount(w, TRUE)
        \/ EndpointRun(w)

SpecEndpoint == InitEndpoint /\ [][NextEndpoint]_vars

\* ---- ProductService.update and CategoryService.update beside get_one --------

\* What get_all and get_one have cached of the committed rows
\* (product_service.py:57, 80; category_service.py:56, 76).
Cached(k) ==
    IF k = ProductListKey THEN Entry(ProductListDump(stock), None)
    ELSE IF k = CategoryListKey THEN Entry(CategoryListDump(categories), cache_ttl)
    ELSE IF \E p \in Products : k = ProductKey(p)
    THEN Entry(ProductDump(stock[CHOOSE p \in Products : k = ProductKey(p)]), None)
    ELSE IF \E c \in Categories : k = CategoryKey(c)
    THEN Entry(CategoryDump(categories[CHOOSE c \in Categories : k = CategoryKey(c)]),
               cache_ttl)
    ELSE Nil

\* Two workers, each with an update of a product or of a category or a
\* get_one of product 1, on a cache that is empty or that earlier reads have
\* filled.
InitInvalidation ==
    /\ stock \in {[p \in Products |-> IF p = 1 THEN s ELSE 0] : s \in 0..MaxStock}
    /\ lines = [i \in LineIds |-> NoLine]
    /\ stock0 = stock
    /\ nextId = 1
    /\ AtRest(Workers)
    /\ live = Products
    /\ categories = [c \in Categories |-> CategoryName]
    /\ redisClient \in BOOLEAN
    /\ \E warm \in {{}, ProductKeys \cup CategoryKeys} :
          cache = [k \in CacheKeys |-> IF k \in warm THEN Cached(k) ELSE Nil]
    /\ lockKey = [k \in CacheKeys |-> None]
    /\ frame = [w \in Workers |-> NoFrame]
    /\ limiter = NoLimiter

NextInvalidation ==
    \E w \in Workers :
        \/ ProductUpdate(w)
        \/ CategoryUpdate(w)
        \/ UpdateFail(w)
        \/ Close(w)
        \/ \E ok \in BOOLEAN : GetOneCache(w, 1, ok) \/ GetOneRead(w) \/ GetOneFill(w, ok)

SpecInvalidation == InitInvalidation /\ [][NextInvalidation]_vars

\* ---- scenario: get_one racing with an update of the product ------------------

\* Two workers, each with an update or a get_one of product 1, on an empty
\* cache and a store that answers every call: whatever the cache holds has
\* been put there by a get_one.
InitRace ==
    /\ InitInvalidation
    /\ redisClient = TRUE
    /\ cache = [k \in CacheKeys |-> Nil]

NextRace ==
    \E w \in Workers :
        \/ \E s \in 0..MaxStock, valid \in BOOLEAN : ProductUpdateBegin(w, 1, s, valid)
        \/ ProductUpdateCommit(w)
        \/ ProductUpdateInvalidate(w, TRUE)
        \/ ProductUpdateInvalidateLists(w, TRUE)
        \/ UpdateFail(w)
        \/ Close(w)
        \/ GetOneCache(w, 1, TRUE) \/ GetOneRead(w) \/ GetOneFill(w, TRUE)

SpecRace == InitRace /\ [][NextRace]_vars

\* ---- scenario: a Reserve with a manipulated price beside an honest one --------

\* tests/test_services.py:292-376: worker 1 sends a price that is not the
\* product's, worker 2 the product's price or none; the order, the product and
\* the quantity may each be one that fails.
Manipulator == 1
AskedPrices(w) ==
    IF w = Manipulator THEN {ProductPrice(1) + 2, ProductPrice(2) + 2}
    ELSE {None, ProductPrice(1)}

ReserveInputs(w) ==
    {Schema("save", None, q, price, o, p) :
        q \in {1, MaxStock + 1}, price \in AskedPrices(w), o \in OrderIds, p \in ProductIds}

ReserveAny(w) == \E schema \in ReserveInputs(w) : SaveBegin(w, schema)

NextChecks ==
    \E w \in Workers :
        ReserveAny(w) \/ ReserveLock(w) \/ ReserveCommit(w) \/ CommitFail(w) \/ Close(w)

SpecChecks == Init /\ [][NextChecks]_vars

\* ---- properties --------------------------------------------------------------

AllDone == \A w \in DOMAIN pc : pc[w] = "done"

\* The workers whose request `op` ended with `res`.
Outcomes(op, res) ==
    {w \in DOMAIN pc : pc[w] = "done" /\ req[w].op = op /\ result[w] = res}

Persisted == {i \in DOMAIN lines : lines[i] # NoLine}

\* C1 -- No overselling: with stock S and N > S concurrent Reserve calls of
\* quantity 1 at the correct price, once every call has returned exactly S
\* have succeeded, exactly N - S have failed with InsufficientStock, the stock
\* is 0 and exactly S line items are persisted.
NoOverselling ==
    AllDone =>
        /\ Cardinality(Outcomes("save", "ok")) = stock0[1]
        /\ Cardinality(Outcomes("save", "InsufficientStock"))
               = Cardinality(Callers) - stock0[1]
        /\ stock[1] = 0
        /\ Cardinality(Persisted) = stock0[1]

OversoldOut == AllDone /\ stock0[1] = MaxStock /\ Cardinality(Callers) > stock0[1]

\* Every line item is of product p, and no other product's stock or lines
\* have been touched.
OnlyProduct(p) ==
    /\ \A i \in DOMAIN lines : lines[i] # NoLine => lines[i].product_id = p
    /\ \A o \in Products \ {p} : stock[o] = stock0[o]

StockNeverNegative ==
    /\ \A p \in Products : stock[p] >= 0
    /\ \A w \in DOMAIN pending : \A pr \in pending[w] : pr[2] >= 0

SoldOut ==
    \E w \in Workers :
        /\ pc[w] = "done" /\ req[w].op = "save" /\ result[w] = "ok"
        /\ stock[1] = 0 /\ stock0[1] > 0

\* A step of the Reserve of worker w, and the step that commits it.
ReserveStep(w) == pc'[w] # pc[w] /\ req'[w].op = "save"
ReserveSucceeds(w) == ReserveStep(w) /\ pc'[w] = "done" /\ result'[w] = "ok"

AllOrNothing(w) ==
    /\ (ReserveStep(w) /\ ~ReserveSucceeds(w)) =>
           (stock' = stock /\ lines' = lines /\ nextId' = nextId)
    /\ ReserveSucceeds(w) =>
           LET p == req[w].product_id
               q == req[w].quantity
           IN  /\ stock' = [stock EXCEPT ![p] = stock[p] - q]
               /\ lines[nextId] = NoLine
               /\ lines'[nextId].quantity = q
               /\ lines'[nextId].product_id = p
               /\ \A i \in DOMAIN lines : i # nextId => lines'[i] = lines[i]

GuardStep(w) == pc[w] = "save" /\ pc'[w] # "save" /\ req[w].product_id \in Products

Mismatched(w) ==
    /\ req[w].price # None
    /\ Abs(req[w].price - ProductPrice(req[w].product_id)) > PRICE_EPSILON

Untouched == stock' = stock /\ lines' = lines /\ nextId' = nextId

RoundTripDone(w1, w2) ==
    /\ pc[w1] = "done" /\ req[w1].op = "save" /\ result[w1] = "ok"
    /\ pc[w2] = "done" /\ req[w2].op = "delete" /\ result[w2] = "ok"
    /\ req[w1].id_key = req[w2].id_key

\* C6 -- Round trip: once a Reserve has succeeded and a Release of the line
\* it created has succeeded, nothing else having run in between, the line is
\* gone and the product's stock is what it was before the Reserve (the lines
\* that were there before are still there, so that is stock0 less what they
\* hold).
RoundTrip ==
    \A w1, w2 \in Workers :
        RoundTripDone(w1, w2) =>
            /\ lines[req[w1].id_key] = NoLine
            /\ \A p \in Products : stock[p] = stock0[p] - Reserved(p)

RoundTripMade ==
    \E w1, w2 \in Workers : RoundTripDone(w1, w2) /\ stock[1] = MaxStock

OneAdjustSucceeds ==
    AllDone =>
        /\ Cardinality(Outcomes("update", "ok")) = 1
        /\ Cardinality(Outcomes("update", "InsufficientStock"))
               = Cardinality(Callers) - 1
        /\ stock[1] = MaxStock - (lines[1].quantity - 1)

Mutex == \A p \in Products : Cardinality({l \in locks : l[2] = p}) <= 1

\* The step commits a Reserve, Adjust or Release whose transaction holds the
\* lock of product p.
LockedWrite(p) ==
    \E w \in Workers :
        /\ <<w, p>> \in locks
        /\ pc[w] \in {"save_locked", "update_locked", "delete_locked"}
        /\ pc'[w] = "done"

\* C10 as stated -- a product's stock is written only by Reserve, Adjust or
\* Release inside a transaction that holds the product's row lock, and by
\* nothing else; at most one transaction holds a product's lock at a time.
StockWrittenOnlyUnderLock ==
    [][/\ \A p \in Products : stock'[p] # stock[p] => LockedWrite(p)
       /\ Mutex']_vars

\* C10 -- a product's stock is written by Reserve, Adjust or Release inside a
\* transaction that holds the product's row lock, and also by
\* ProductService.update, which takes no lock and writes when no transaction
\* holds the row's lock; at most one transaction holds a product's lock at a
\* time.
StockWriters ==
    [][/\ \A p \in Products :
            stock'[p] # stock[p] =>
                \/ LockedWrite(p)
                \/ \E w \in Workers :
                       /\ pc[w] = "pupdate" /\ pc'[w] = "pupdate_committed"
                       /\ req[w].op = "product_update" /\ req[w].id_key = p
                       /\ LockFree(p)
       /\ Mutex']_vars

StockSetByProductUpdate ==
    \E w1, w2 \in Workers :
        /\ pc[w1] = "done" /\ req[w1].op = "product_update" /\ result[w1] = "ok"
        /\ pc[w2] = "done" /\ req[w2].op = "save" /\ result[w2] = "ok"

\* C11 -- Price immutable: the step that commits an Adjust of a line leaves
\* the line's price at the price stored when the line was created.
PriceImmutable ==
    [][\A w \in Workers :
          (pc[w] = "update_locked" /\ pc'[w] = "done" /\ result'[w] = "ok") =>
              lines'[req[w].id_key].price = lines[req[w].id_key].price
      ]_vars

\* The number of times the calls of `ws` have run compute_fn.
RECURSIVE Computed(_)
Computed(ws) ==
    IF ws = {} THEN 0
    ELSE LET w == CHOOSE x \in ws : TRUE
         IN  frame[w].computes + Computed(ws \ {w})

\* C12 -- Stampede bound: once the concurrent get_or_set calls on one key of an
\* empty cache have all returned, compute_fn has run fewer times than there
\* are calls, and every call has returned the same value.
StampedeBound ==
    AllDone =>
        /\ Computed(DOMAIN frame) < Cardinality(DOMAIN frame)
        /\ \A v, w \in DOMAIN frame : frame[v].ret = frame[w].ret

\* The calls `op` that are over.
Called(op) == {w \in DOMAIN pc : pc[w] = "done" /\ frame[w].op = op}

\* C13 -- Cache fail-open: no call of the cache ends with an error of the
\* store; a get whose store call raised, or with the store unavailable,
\* returns a miss, a set or delete reports failure, and a get_or_set with the
\* store unavailable returns what its own compute_fn call returned.
FailOpen ==
    /\ \A w \in DOMAIN pc : result[w] # "StoreError"
    /\ \A w \in Called("get") :
          (frame[w].erred \/ ~IsAvailable) => frame[w].ret = PyNone
    /\ \A w \in Called("set") \cup Called("delete") :
          (frame[w].erred \/ ~IsAvailable) => frame[w].ret = PyFalse
    /\ \A w \in Called("get_or_set") :
          (~IsAvailable /\ result[w] = "returned") =>
              (frame[w].computes = 1 /\ frame[w].ret = frame[w].value)

\* C14 -- Cache round trip: a get that the store answers returns the value the
\* key's entry was set from, whatever the value and the ttl, and a miss when
\* the key has no entry (never set, deleted or expired).
CacheRoundTrip ==
    [][\A w \in Workers :
          (/\ pc[w] = "idle" /\ pc'[w] = "done" /\ frame'[w].op = "get"
           /\ IsAvailable /\ ~frame'[w].erred) =>
              frame'[w].ret = IF cache[frame'[w].key] = Nil
                              THEN PyNone
                              ELSE cache[frame'[w].key][2]
      ]_vars

\* C15 -- get_or_set never blocks: a call makes at most max_retries lock
\* attempts and at most max_retries sleeps, has a step to take as long as it
\* is not over whoever holds the lock, ends with a value or with compute_fn's
\* error, and computes without the lock once its retries are used up.
GetOrSetTerminates ==
    \A w \in DOMAIN pc :
        frame[w].op = "get_or_set" =>
            /\ frame[w].attempt <= max_retries
            /\ frame[w].sleeps <= max_retries
            /\ pc[w] # "done" => ENABLED GocStep(w, BOOLEAN, ComputeResults \cup {Raises})
            /\ pc[w] = "done" => result[w] \in {"returned", "ComputeError"}
            /\ pc[w] \in {"goc_fallback", "goc_fallback_store"} =>
                  /\ frame[w].attempt = max_retries
                  /\ frame[w].sleeps = max_retries
                  /\ ~frame[w].locked

\* The get_or_set calls that are over and had acquired the lock of their key.
Unlocking == {w \in Called("get_or_set") : frame[w].locked}

\* C16 (as stated) -- Lock release: a get_or_set call that acquired lock:key
\* and is over, by a return or by compute_fn's error, has not left behind the
\* lock it set.
LockReleasedAlways ==
    \A w \in Unlocking : lockKey[frame[w].key] # w

\* C16 (amended) -- Lock release: a get_or_set call that acquired lock:key and
\* is over has not left behind the lock it set, whether the double check
\* hit, compute_fn returned or compute_fn raised, unless the store raised at
\* the delete of the lock.
LockReleased ==
    \A w \in Unlocking : frame[w].released => lockKey[frame[w].key] # w

\* A call whose compute_fn raised under the lock is over and the lock is gone.
ReleasedAfterRaise ==
    \E w \in Unlocking :
        /\ result[w] = "ComputeError"
        /\ frame[w].released
        /\ lockKey[frame[w].key] = None

\* C17 -- Reads see committed stock: once the writer's Reserve, Adjust or
\* Release has committed, a get_one of the product returns the stock the
\* database holds, also when the product was read through get_one before.
ReadsSeeCommitted ==
    [][\A r \in Readers :
          (/\ pc[Writer] = "done" /\ result[Writer] = "ok"
           /\ pc[r] = "idle" /\ pc'[r] = "done" /\ result'[r] = "returned") =>
              frame'[r].ret = ProductDump(stock[req'[r].id_key])
      ]_vars

\* C18 -- Sales-history guard: a delete of a product that a line item
\* refers to fails with ValueError at its check and changes nothing; no step
\* removes a product that a line item refers to, nor a line item with it; a
\* delete that commits with no line item on the product succeeds; and every
\* line item's product exists, whatever Reserve runs beside the delete.
SalesHistoryGuard ==
    [][/\ \A w \in Workers :
             /\ (/\ pc[w] = "idle" /\ req'[w].op = "product_delete"
                 /\ LinesOf(req'[w].id_key) # {}) =>
                    /\ pc'[w] = "raised" /\ result'[w] = "ValueError"
                    /\ lines' = lines /\ live' = live
             /\ (/\ pc[w] = "pdelete_flush" /\ pc'[w] = "done"
                 /\ req[w].id_key \in live /\ LinesOf(req[w].id_key) = {}) =>
                    (result'[w] = "ok" /\ req[w].id_key \notin live')
       /\ \A p \in live \ live' : LinesOf(p) = {} /\ lines' = lines
       /\ \A i \in DOMAIN lines : lines[i] # NoLine => lines[i].product_id \in live
      ]_vars

\* The step by which the middleware decides on the request of client w.
Decides(w) == pc[w] = "idle" /\ pc'[w] # "idle" /\ frame'[w].op = "request"

\* The decision on a request that the store has counted under its address:
\* passed to the handler when fewer than `calls` requests were counted since
\* the counter was created, else 429 without reaching the handler; the
\* counters of the other addresses stay as they are.
Limited(w) ==
    LET k == frame'[w].key
    IN  /\ IF limiter.count[k] < limiter.calls
           THEN pc'[w] = "handler"
           ELSE pc'[w] = "done" /\ result'[w] = "429"
        /\ \A o \in RateKeys \ {k} : limiter'.count[o] = limiter.count[o]

\* C19 (as stated) -- Global rate limit: of the requests of one address, the
\* first `calls` while its counter lives are passed to the handler and every
\* later one is answered 429 (with calls = 0 the first one already);
\* addresses do not affect each other; on a store error the request passes.
GlobalRateLimitEveryRequest ==
    [][\A w \in Clients :
          Decides(w) =>
              IF IsAvailable /\ ~frame'[w].erred
              THEN Limited(w)
              ELSE pc'[w] = "handler"
      ]_vars

\* C19 (amended) -- Global rate limit: as stated for every path but
\* /health_check; a request to /health_check is passed to the handler
\* whatever the counter, and is not counted.
GlobalRateLimit ==
    [][\A w \in Clients :
          Decides(w) =>
              IF IsAvailable /\ ~frame'[w].erred /\ req'[w].op # HealthCheck
              THEN Limited(w)
              ELSE pc'[w] = "handler" /\ limiter' = limiter
      ]_vars

\* With calls >= 1, one address has had a request answered and a later one
\* rejected.
RateLimited ==
    \E v, w \in Clients :
        /\ limiter.calls >= 1
        /\ frame[v].key = frame[w].key
        /\ pc[v] = "done" /\ result[v] = "200"
        /\ pc[w] = "done" /\ result[w] = "429"

\* The clients whose request to the endpoint counted under k was executed.
Executed(k) ==
    {w \in Clients : frame[w].op = "create" /\ frame[w].key = k
                     /\ pc[w] = "done" /\ result[w] = "201"}

\* C20 -- Endpoint rate limit: of the requests of one period to one endpoint
\* from one address, at most `calls` are executed by the wrapped endpoint,
\* however the requests interleave.
EndpointRateLimit ==
    \A k \in RateKeys : Cardinality(Executed(k)) <= limiter.calls

\* A step of the ProductService.update or CategoryService.update of worker w.
UpdateStep(w) ==
    /\ pc'[w] # pc[w]
    /\ {req[w].op, req'[w].op} \cap {"product_update", "category_update"} # {}

\* The update of worker w has committed and has not returned yet.
Committed(w) == pc[w] \in {"pupdate_committed", "pupdate_lists", "cupdate_committed"}

\* The step ends the request of worker w with an error, or hands it one.
Fails(w) == pc'[w] = "raised" \/ (pc'[w] = "done" /\ result'[w] # "ok")

\* C21 -- Invalidate after commit: a step of a product or category update
\* changes the cache only when the update's commit has succeeded; a step that
\* fails the update (not found, validation, database error) leaves every
\* cache entry as it is, and the update has invalidated nothing before it.
InvalidateAfterCommit ==
    [][\A w \in Workers :
          UpdateStep(w) =>
              /\ cache' # cache => Committed(w)
              /\ Fails(w) => (cache' = cache /\ pc[w] # "pupdate_lists")
      ]_vars

\* A product update has succeeded and its entry is gone, and a category update
\* has failed and the categories' entries are still there.
InvalidatedAndKept ==
    \E v, w \in Workers :
        /\ pc[v] = "done" /\ req[v].op = "product_update" /\ result[v] = "ok"
        /\ cache[ProductKey(req[v].id_key)] = Nil
        /\ pc[w] = "done" /\ req[w].op = "category_update" /\ result[w] # "ok"
        /\ cache[CategoryListKey] # Nil

\* The outcome of the step in which the Reserve of worker w makes its checks
\* under the row lock, `failure` being the first check that fails.
ChecksEndWith(w, failure) ==
    IF failure = "none"
    THEN pc'[w] = "save_locked"
    ELSE pc'[w] = "raised" /\ result'[w] = failure /\ Untouched

\* A Reserve whose order is missing fails with NotFound before anything else
\* is looked at.
OrderCheckedFirst(w) ==
    \A schema \in ReserveInputs(w) :
        (SaveBegin(w, schema) /\ schema.order_id \notin Orders) =>
            (pc'[w] = "raised" /\ result'[w] = "NotFound" /\ Untouched)

Switching(w) ==
    /\ req[w].op = "update"
    /\ pc[w] \in {"update", "update_locked"}
    /\ req[w].product_id # None
    /\ req[w].product_id # existing[w].product_id

\* C23 -- Product switch in Adjust: when an Adjust moves a line from P_old to
\* P_new, its commit leaves P_old's stock (and every other product's) as it
\* is and changes P_new's stock by exactly -(new_quantity - old_quantity),
\* old_quantity being the quantity the Adjust read; the only row lock the
\* Adjust ever holds is P_new's.
SwitchPatchesNewProductOnly ==
    [][\A w \in Workers :
          Switching(w) =>
              LET new == req[w].product_id
                  diff == req[w].quantity - existing[w].quantity
              IN  /\ (pc[w] = "update_locked" /\ pc'[w] = "done" /\ result'[w] = "ok") =>
                        /\ stock'[new] = stock[new] - diff
                        /\ \A p \in Products \ {new} : stock'[p] = stock[p]
                        /\ lines'[req[w].id_key].product_id = new
                  /\ {l \in locks : l[1] = w} \subseteq {<<w, new>>}
                  /\ {l \in locks' : l[1] = w} \subseteq {<<w, new>>}
                  /\ pc[w] = "update_locked" => <<w, new>> \in locks
      ]_vars

\* An Adjust has moved line 1 to product 2 with a larger quantity, nothing
\* else having run: product 2's stock has paid for the increase.
SwitchedProduct ==
    \E w \in Workers :
        /\ pc[w] = "done" /\ req[w].op = "update" /\ result[w] = "ok"
        /\ req[w].id_key = 1
        /\ lines[1].product_id = 2
        /\ stock[2] = stock0[2] - 1
        /\ \A v \in Workers \ {w} : pc[v] = "idle"

\* The step ends the request of worker w, an `op` on line id, at its commit,
\* with success.
Succeeds(w, op, id) ==
    /\ pc[w] = op /\ pc'[w] = "done" /\ result'[w] = "ok"
    /\ req'[w].id_key = id

HitUnderLock(w) ==
    /\ frame[w].op = "get_or_set" /\ frame[w].locked
    /\ pc[w] \in {"goc_release", "done"}
    /\ frame[w].value = Nil /\ result[w] # "ComputeError"

\* C25 -- Double-check under lock: a get_or_set call that missed, took
\* lock:<key> and, no store call of its own having failed, finds at its
\* double check an entry that another worker has filled in, returns that
\* entry's value, without invoking compute_fn and without writing the cache.
DoubleCheck ==
    [][\A w \in Workers :
          LET k == frame[w].key
          IN  /\ (/\ pc[w] = "goc_locked" /\ pc'[w] # "goc_locked"
                  /\ IsAvailable /\ ~frame'[w].erred
                  /\ cache[k] # Nil /\ Deserialize(cache[k][1]) # PyNone) =>
                     /\ pc'[w] = "goc_release" /\ HitUnderLock(w)'
                     /\ frame'[w].ret = Deserialize(cache[k][1])
                     /\ cache' = cache
              /\ HitUnderLock(w) =>
                     /\ frame[w].computes = 0
                     /\ frame'[w].computes = 0
                     /\ frame'[w].ret = frame[w].ret
                     /\ pc'[w] # pc[w] =>
                            (cache' = cache /\ pc'[w] = "done" /\ result'[w] = "returned")
      ]_vars

\* One call computed and stored the value; another, which had missed before,
\* took the lock afterwards and returned the stored value without computing.
FilledBeforeLock ==
    \E w1, w2 \in Workers :
        /\ pc[w1] = "done" /\ frame[w1].op = "get_or_set" /\ frame[w1].computes = 1
        /\ pc[w2] = "done" /\ HitUnderLock(w2) /\ frame[w2].computes = 0
        /\ frame[w2].ret = frame[w1].value

\* C25 as stated -- whenever the entry of the key is there when a get_or_set
\* call that missed and took the lock makes its double check, the call goes
\* on to return the cached value, without invoking compute_fn and without
\* writing the cache.
DoubleCheckWheneverFilled ==
    [][\A w \in Workers :
          (/\ pc[w] = "goc_locked" /\ pc'[w] # "goc_locked"
           /\ cache[frame[w].key] # Nil) =>
              /\ pc'[w] = "goc_release"
              /\ frame'[w].ret = Deserialize(cache[frame[w].key][1])
              /\ cache' = cache
      ]_vars

\* C26 -- Lock ownership: the lock entry a get_or_set call has set goes only
\* when it expires or when that call's own cleanup deletes it; the cleanup of
\* another call, whose own lock has expired, leaves it in place.
LockDeletedByOwnerOnly ==
    [][\A k \in DOMAIN lockKey :
          (lockKey[k] # None /\ lockKey'[k] # lockKey[k]) =>
              \/ (lockKey'[k] = None /\ pc' = pc)
              \/ (pc[lockKey[k]] = "goc_release" /\ pc'[lockKey[k]] = "done")
      ]_vars

\* The step ends the get_or_set call of worker w with a value it has just
\* read from the cache: on the fast path or after a sleep.
ReturnsRead(w) ==
    /\ pc[w] \in {"idle", "goc_sleep"} /\ pc'[w] = "done"
    /\ frame'[w].op = "get_or_set" /\ result'[w] = "returned"
    /\ IsAvailable

\* C27 -- A get_or_set call invokes compute_fn at most once on every path
\* (store unavailable, fast-path hit, lock acquired, retries exhausted), and
\* not at all when it returns a value read from the cache.
ComputesAtMostOnce ==
    [][\A w \in Workers :
          /\ frame'[w].computes <= 1
          /\ frame'[w].computes >= frame[w].computes
          /\ ReturnsRead(w) =>
                /\ frame'[w].computes = 0
                /\ frame'[w].ret = Deserialize(cache[frame'[w].key][1])
          /\ (pc[w] = "goc_locked" /\ pc'[w] = "goc_release") => frame'[w].computes = 0
          /\ pc[w] = "goc_release" => frame'[w].computes = frame[w].computes
      ]_vars

\* A call has used up its retries and computed once without the lock, and
\* another has returned what it read from the cache.
ComputedOnceAfterRetries ==
    \E w1, w2 \in Workers :
        /\ pc[w1] = "done" /\ frame[w1].op = "get_or_set"
        /\ frame[w1].sleeps = max_retries /\ frame[w1].computes = 1
        /\ pc[w2] = "done" /\ frame[w2].op = "get_or_set"
        /\ result[w2] = "returned" /\ frame[w2].computes = 0

\* The Adjust or Release of worker w has read its line, and the line has been
\* released since.
Late(w) ==
    /\ pc[w] \in {"update", "update_locked", "delete", "delete_locked"}
    /\ lines[req[w].id_key] = NoLine

\* The step is the last one worker w takes inside its operation.
Ends(w) == pc'[w] # pc[w] /\ pc'[w] \in {"raised", "done"}

\* Two Releases of the same line are over: at most one succeeded and the
\* stock has been restored once.
RestoredOnce ==
    \A w1, w2 \in Workers :
        (/\ w1 # w2
         /\ pc[w1] = "done" /\ req[w1].op = "delete"
         /\ pc[w2] = "done" /\ req[w2].op = "delete"
         /\ req[w1].id_key = req[w2].id_key) =>
            /\ ~(result[w1] = "ok" /\ result[w2] = "ok")
            /\ \A p \in Products : stock[p] = stock0[p] - Reserved(p)

\* C28 as stated -- Stale pre-image safety: an Adjust or Release whose line
\* was released after it read it fails with NotFound (or with the database's
\* own error), and its stock change is never committed; two concurrent
\* Releases of one line restore the stock exactly once.
LateFailsNotFound ==
    [][/\ \A w \in Workers :
            (Late(w) /\ Ends(w)) =>
                /\ result'[w] \in {"NotFound", "PersistenceError"}
                /\ stock' = stock /\ lines' = lines
       /\ RestoredOnce'
      ]_vars

\* C28 -- Stale pre-image safety: an Adjust or Release whose line was
\* released after it read it fails, with NotFound when it looks the line up
\* again, or before that with InsufficientStock when it is an Adjust whose
\* increase exceeds the stock it sees (or with the database's own error), and
\* its stock change is never committed; two concurrent Releases of one line
\* restore the stock exactly once.
LateFails ==
    [][/\ \A w \in Workers :
            /\ (Late(w) /\ Ends(w)) =>
                  /\ \/ result'[w] \in {"NotFound", "PersistenceError"}
                     \/ /\ result'[w] = "InsufficientStock"
                        /\ pc[w] = "update"
                        /\ req[w].quantity - existing[w].quantity > 0
                  /\ stock' = stock /\ lines' = lines
            /\ (pc[w] = "raised" /\ pc'[w] # "raised") => stock' = stock
       /\ RestoredOnce'
      ]_vars

\* Two Releases of line 1 have run together: one succeeded, the other found
\* the line gone after it had taken the lock.
ReleasedOnce ==
    \E w1, w2 \in Workers :
        /\ pc[w1] = "done" /\ req[w1].op = "delete" /\ result[w1] = "ok"
        /\ pc[w2] = "done" /\ req[w2].op = "delete" /\ result[w2] = "NotFound"
        /\ req[w1].id_key = 1 /\ req[w2].id_key = 1
        /\ stock[1] = stock0[1] - Reserved(1)
        /\ stock[1] > 0

\* The locks worker w holds.
LocksOf(w) == {l \in locks : l[1] = w}

\* A Reserve, Adjust or Release holds the row lock of one product at most, and
\* none once its transaction has ended.
OneLockEach ==
    \A w \in Workers :
        /\ Cardinality(LocksOf(w)) <= 1
        /\ pc[w] \in {"idle", "done"} => LocksOf(w) = {}

\* Worker w waits for the row lock of a product another transaction holds.
Blocked(w) ==
    /\ pc[w] \in {"save", "update", "delete"}
    /\ \E l \in locks :
          /\ l[1] # w
          /\ l[2] = (IF pc[w] = "save" THEN req[w].product_id
                     ELSE IF pc[w] = "update"
                     THEN EffectiveProduct(req[w].product_id, existing[w].product_id)
                     ELSE existing[w].product_id)

\* C29 -- Deadlock freedom: each Reserve, Adjust or Release holds the row lock
\* of at most one product and none after its transaction has ended; under
\* fair scheduling an operation blocked on a product lock eventually gets
\* past it, and every operation in flight eventually completes, with success
\* or an error.
DeadlockFree ==
    /\ []OneLockEach
    /\ \A w \in Workers :
          /\ Blocked(w) ~> (~Blocked(w) /\ pc[w] \notin {"save", "update", "delete"})
          /\ (pc[w] # "idle") ~> (pc[w] = "done" /\ result[w] # "none" /\ LocksOf(w) = {})

\* One operation holds a product's lock and another waits for it.
WaitsForLock == \E w \in Workers : Blocked(w)

\* C30 -- No stale entry after invalidation: once a ProductService.update of
\* product p has returned and no other request is in flight, the entry of
\* products:id:<p> is absent or holds the product as committed; a get_one
\* that raced with the update has not left the pre-update product cached.
NoStaleEntry ==
    \A w \in Workers :
        (/\ pc[w] = "done" /\ req[w].op = "product_update" /\ result[w] = "ok"
         /\ \A v \in Workers : pc[v] \in {"idle", "done"}) =>
            LET k == ProductKey(req[w].id_key)
            IN  \/ cache[k] = Nil
                \/ cache[k] = Entry(ProductDump(stock[req[w].id_key]), None)

====
